---- MODULE Spec2Model ----
(***************************************************************************)
(* FastMCPClient (src/src/services/FastMCPClient.ts): the bearer token     *)
(* kept in memory and in localStorage, the JSON-RPC tool call over HTTP    *)
(* and the normalisation of its response.                                  *)
(*                                                                         *)
(* JavaScript strings are sequences of one-character strings.  The clock   *)
(* counts milliseconds, as Date.getTime() does.                            *)
(***************************************************************************)
EXTENDS Integers, Sequences, FiniteSets, Bags

VARIABLES
    now,           \* new Date().getTime()
    ticks,         \* how many times the clock has advanced
    accessToken,   \* this.accessToken
    localStorage,  \* the two entries the client keeps in localStorage
    calls,         \* the callTool and search invocations that have not ended
    lastAcquired,  \* the token the last successful initializeAuth yielded;
                   \* Cleared when clearAuth has run since, Null when
                   \* initializeAuth never succeeded
    acquiredAt,    \* the clock when the prompt of the last successful
                   \* initializeAuth that showed one returned; Never when
                   \* there was none, or clearAuth has run since
    last,          \* what the last step did
    component,     \* the state of SearchComponent: results, loading, error
    searches       \* the runs of handleSearch that called client.search, in
                   \* the order of their start: awaiting the search, or done

vars ==
    <<now, ticks, accessToken, localStorage, calls, lastAcquired, acquiredAt,
      last, component, searches>>

\* ---------------------------------------------------------------- bounds

\* Longest answer typed into the prompt.
MaxPromptLen == 2

\* How many times the clock is advanced in one behaviour.
MaxTicks == 2

\* How many tool calls can be in flight at once.
MaxCalls == 2

\* How many calls can be in flight at once where testConnection is among
\* the operations.
MaxPending == 1

\* How many searches handleSearch starts in one behaviour.
MaxSearches == 2

\* ------------------------------------------------------------- constants

\* new Date().getTime() + 3600000
TokenLifetime == 3600000

TOKEN_KEY == "fastmcp_access_token"
EXPIRY_KEY == "fastmcp_token_expiry"

\* null (accessToken, a cancelled prompt, getItem of a missing key): a value
\* that is no string, since every string is a sequence of single characters.
Null == <<"null">>

\* ---------------------------------------------------------------- strings

Chars == {" ", "a"}

Digits == <<"0", "1", "2", "3", "4", "5", "6", "7", "8", "9">>

StringsUpTo(n) == UNION {[1..k -> Chars] : k \in 0..n}

IsWhitespace(c) == c = " "

RECURSIVE TrimStart(_)
TrimStart(s) ==
    IF s # <<>> /\ IsWhitespace(Head(s)) THEN TrimStart(Tail(s)) ELSE s

RECURSIVE TrimEnd(_)
TrimEnd(s) ==
    IF s # <<>> /\ IsWhitespace(s[Len(s)])
    THEN TrimEnd(SubSeq(s, 1, Len(s) - 1))
    ELSE s

\* String.prototype.trim
Trim(s) == TrimEnd(TrimStart(s))

\* Number.prototype.toString of an integer
RECURSIVE NumberToString(_)
NumberToString(n) ==
    IF n < 0 THEN <<"-">> \o NumberToString(0 - n)
    ELSE IF n < 10 THEN <<Digits[n + 1]>>
    ELSE Append(NumberToString(n \div 10), Digits[(n % 10) + 1])

DigitValue(c) == CHOOSE d \in 0..9 : Digits[d + 1] = c

IsDigit(c) == \E d \in 0..9 : Digits[d + 1] = c

RECURSIVE ParseDigits(_, _)
ParseDigits(s, acc) ==
    IF s = <<>> \/ ~IsDigit(Head(s)) THEN acc
    ELSE ParseDigits(Tail(s), acc * 10 + DigitValue(Head(s)))

\* NaN is the empty set of numbers, a number n is {n}.
NaN == {}

\* parseInt(s): leading white space is skipped, the digits that follow are
\* read up to the first character that is no digit; NaN when there is none.
ParseInt(s) ==
    LET t == TrimStart(s)
    IN  IF t = <<>> \/ ~IsDigit(Head(t)) THEN NaN ELSE {ParseDigits(t, 0)}

\* a < b where b is the result of parseInt: false when b is NaN
LessThan(a, b) == \E n \in b : a < n

\* ------------------------------------------------------------ localStorage

GetItem(store, key) == IF key \in DOMAIN store THEN store[key] ELSE Null

SetItem(store, key, value) ==
    [k \in DOMAIN store \cup {key} |-> IF k = key THEN value ELSE store[k]]

RemoveItem(store, key) == [k \in DOMAIN store \ {key} |-> store[k]]

EmptyStorage == [k \in {} |-> <<>>]

\* A JavaScript string used as a condition
TruthyString(s) == s # Null /\ s # <<>>

\* ------------------------------------------------------------- JSON values

\* A JavaScript value as JSON.parse and axios produce it.  A string holds its
\* characters; an object is a function from its keys (strings) to values.
JUndefined == [t |-> "undefined"]
JNull == [t |-> "null"]
JBool(b) == [t |-> "boolean", b |-> b]
JNum(n) == [t |-> "number", n |-> n]
JStr(s) == [t |-> "string", s |-> s]
JArr(a) == [t |-> "array", a |-> a]
JObj(o) == [t |-> "object", o |-> o]

IsString(v) == v.t = "string"
IsArray(v) == v.t = "array"
IsNullish(v) == v.t \in {"null", "undefined"}

\* typeof v === 'object' (true of null and of arrays)
TypeOfObject(v) == v.t \in {"object", "array", "null"}

\* a value used as a condition
Truthy(v) ==
    CASE v.t = "undefined" -> FALSE
      [] v.t = "null" -> FALSE
      [] v.t = "boolean" -> v.b
      [] v.t = "number" -> v.n # 0
      [] v.t = "string" -> v.s # <<>>
      [] OTHER -> TRUE

KLength == <<"l", "e", "n", "g", "t", "h">>

\* key in v, for v an object or an array whose indices the key is not
HasKey(v, key) == v.t = "object" /\ key \in DOMAIN v.o

\* v.key for a v that is neither null nor undefined
Get(v, key) ==
    CASE v.t = "object" -> IF key \in DOMAIN v.o THEN v.o[key] ELSE JUndefined
      [] v.t = "array" -> IF key = KLength THEN JNum(Len(v.a)) ELSE JUndefined
      [] v.t = "string" -> IF key = KLength THEN JNum(Len(v.s)) ELSE JUndefined
      [] OTHER -> JUndefined

\* the one-key object {key: value} and the union of two objects
Field(key, value) == [k \in {key} |-> value]

Merge(f, g) ==
    [k \in DOMAIN f \cup DOMAIN g |-> IF k \in DOMAIN g THEN g[k] ELSE f[k]]

\* String(v), as a template literal `${v}` computes it
RECURSIVE JsString(_)
RECURSIVE JoinElements(_)
JoinElements(a) ==
    IF a = <<>> THEN <<>>
    ELSE (IF IsNullish(Head(a)) THEN <<>> ELSE JsString(Head(a)))
         \o (IF Len(a) > 1 THEN <<",">> \o JoinElements(Tail(a)) ELSE <<>>)

JsString(v) ==
    CASE v.t = "undefined" -> <<"u", "n", "d", "e", "f", "i", "n", "e", "d">>
      [] v.t = "null" -> <<"n", "u", "l", "l">>
      [] v.t = "boolean" ->
            IF v.b THEN <<"t", "r", "u", "e">> ELSE <<"f", "a", "l", "s", "e">>
      [] v.t = "number" -> NumberToString(v.n)
      [] v.t = "string" -> v.s
      [] v.t = "array" -> JoinElements(v.a)
      [] OTHER -> <<"[", "o", "b", "j", "e", "c", "t", " ",
                    "O", "b", "j", "e", "c", "t", "]">>

\* The element of a one-element set.  The({F(x) : x \in {e}}) is F(e), with
\* e computed once however often F uses x.
The(S) == CHOOSE x \in S : TRUE

\* --------------------------------------------------------------- JSON text

\* The character of s at position i, "" past its end.
Ch(s, i) == IF i >= 1 /\ i <= Len(s) THEN s[i] ELSE ""

JsonWhitespace == {" ", "\t", "\n", "\r"}

RECURSIVE SkipWs(_, _)
SkipWs(s, i) == IF Ch(s, i) \in JsonWhitespace THEN SkipWs(s, i + 1) ELSE i

StartsWithAt(s, i, w) ==
    i + Len(w) - 1 <= Len(s) /\ SubSeq(s, i, i + Len(w) - 1) = w

\* The result of parsing a piece of text: the value and the position after it.
ParseFail == [ok |-> FALSE]
Parsed(v, i) == [ok |-> TRUE, v |-> v, i |-> i]

EmptyObject == [k \in {} |-> JNull]

Min(S) == CHOOSE x \in S : \A y \in S : x <= y

\* How many backslashes end at position i of s, one after the other.
RECURSIVE BackslashRun(_, _)
BackslashRun(s, i) == IF Ch(s, i) = "\\" THEN 1 + BackslashRun(s, i - 1) ELSE 0

\* Whether the character at position j follows a backslash that escapes it.
Escaped(s, j) == BackslashRun(s, j - 1) % 2 = 1

EscapeLetters == {"\"", "\\", "/", "n", "t", "r"}

Unescaped(c) ==
    CASE c = "n" -> "\n" [] c = "t" -> "\t" [] c = "r" -> "\r" [] OTHER -> c

\* The characters the positions lo..hi of a string literal stand for.
RECURSIVE UnescapeChars(_, _, _)
UnescapeChars(s, lo, hi) ==
    IF lo > hi THEN <<>>
    ELSE IF lo = hi
    THEN IF Escaped(s, lo) THEN <<Unescaped(s[lo])>>
         ELSE IF s[lo] = "\\" THEN <<>>
         ELSE <<s[lo]>>
    ELSE The({UnescapeChars(s, lo, mid) \o UnescapeChars(s, mid + 1, hi) :
              mid \in {(lo + hi) \div 2}})

\* The string literal whose opening quote is before i: it ends at the first
\* quote that is not escaped.  The escapes read are \" \\ \/ \n \t \r, and a
\* literal holds no raw line break or tab.
ParseChars(s, i) ==
    LET quotes == {j \in i..Len(s) : s[j] = "\"" /\ ~Escaped(s, j)}
        close == Min(quotes)
    IN  IF quotes = {} THEN ParseFail
        ELSE IF \E j \in i..(close - 1) :
                    \/ s[j] \in {"\n", "\t", "\r"}
                    \/ Escaped(s, j) /\ s[j] \notin EscapeLetters
        THEN ParseFail
        ELSE Parsed(JStr(UnescapeChars(s, i, close - 1)), close + 1)

RECURSIVE DigitsEnd(_, _)
DigitsEnd(s, i) == IF IsDigit(Ch(s, i)) THEN DigitsEnd(s, i + 1) ELSE i

\* An integer literal at i: an optional minus sign, then digits with no
\* leading zero.
ParseNumber(s, i) ==
    LET neg == Ch(s, i) = "-"
        b == IF neg THEN i + 1 ELSE i
        e == DigitsEnd(s, b)
        n == ParseDigits(SubSeq(s, b, e - 1), 0)
    IN  IF e = b \/ (e - b > 1 /\ s[b] = "0") THEN ParseFail
        ELSE Parsed(JNum(IF neg THEN 0 - n ELSE n), e)

RECURSIVE ParseValue(_, _)
RECURSIVE ParseElements(_, _, _)
RECURSIVE ParseMembers(_, _, _)
RECURSIVE ParseMember(_, _)
RECURSIVE MembersAfter(_, _, _, _)

ParseValue(s, i0) ==
    LET i == SkipWs(s, i0)
        c == Ch(s, i)
        j == SkipWs(s, i + 1)
    IN  CASE c = "{" ->
                IF Ch(s, j) = "}" THEN Parsed(JObj(EmptyObject), j + 1)
                ELSE ParseMembers(s, j, EmptyObject)
          [] c = "[" ->
                IF Ch(s, j) = "]" THEN Parsed(JArr(<<>>), j + 1)
                ELSE ParseElements(s, j, <<>>)
          [] c = "\"" -> ParseChars(s, i + 1)
          [] c = "-" \/ IsDigit(c) -> ParseNumber(s, i)
          [] StartsWithAt(s, i, <<"t", "r", "u", "e">>) ->
                Parsed(JBool(TRUE), i + 4)
          [] StartsWithAt(s, i, <<"f", "a", "l", "s", "e">>) ->
                Parsed(JBool(FALSE), i + 5)
          [] StartsWithAt(s, i, <<"n", "u", "l", "l">>) -> Parsed(JNull, i + 4)
          [] OTHER -> ParseFail

\* The elements of an array from i, the first position of an element.
ParseElements(s, i, acc) ==
    The({IF ~r.ok THEN ParseFail
         ELSE LET j == SkipWs(s, r.i)
                  c == Ch(s, j)
              IN  CASE c = "," -> ParseElements(s, j + 1, Append(acc, r.v))
                    [] c = "]" -> Parsed(JArr(Append(acc, r.v)), j + 1)
                    [] OTHER -> ParseFail :
         r \in {ParseValue(s, i)}})

\* The members of an object from i, the first position of a key.  A key
\* given twice keeps its last value.
ParseKey(s, i) ==
    LET i1 == SkipWs(s, i)
    IN  IF Ch(s, i1) = "\"" THEN ParseChars(s, i1 + 1) ELSE ParseFail

\* The value of the member whose key was read as k.
ParseMember(s, k) ==
    LET j == SkipWs(s, k.i)
    IN  IF k.ok /\ Ch(s, j) = ":" THEN ParseValue(s, j + 1) ELSE ParseFail

\* The members after the one read as k and r.
MembersAfter(s, acc, k, r) ==
    IF ~r.ok THEN ParseFail
    ELSE LET m == SkipWs(s, r.i)
             c == Ch(s, m)
             acc2 == Merge(acc, Field(k.v.s, r.v))
         IN  CASE c = "," -> ParseMembers(s, m + 1, acc2)
               [] c = "}" -> Parsed(JObj(acc2), m + 1)
               [] OTHER -> ParseFail

ParseMembers(s, i, acc) ==
    The({The({MembersAfter(s, acc, k, r) : r \in {ParseMember(s, k)}}) :
         k \in {ParseKey(s, i)}})

SyntaxError == [name |-> "SyntaxError", message |-> <<"Unexpected token in JSON">>]

\* JSON.parse(text) for a string text: the value, or the SyntaxError thrown.
JSONParseText(text) ==
    The({The({IF r.ok /\ SkipWs(s, r.i) = Len(s) + 1
              THEN [ok |-> TRUE, value |-> r.v]
              ELSE [ok |-> FALSE, error |-> SyntaxError] :
              r \in {ParseValue(s, 1)}}) :
         s \in {text}})

\* JSON.parse(v): the argument is converted to a string first.
JSONParse(v) == JSONParseText(JsString(v))

EscapedChar(c) ==
    CASE c = "\"" -> <<"\\", "\"">>
      [] c = "\\" -> <<"\\", "\\">>
      [] c = "\n" -> <<"\\", "n">>
      [] c = "\t" -> <<"\\", "t">>
      [] c = "\r" -> <<"\\", "r">>
      [] OTHER -> <<c>>

\* The characters of s as a string literal holds them.
RECURSIVE EscapeChars(_)
EscapeChars(text) ==
    The({IF Len(s) = 0 THEN <<>>
         ELSE IF Len(s) = 1 THEN EscapedChar(s[1])
         ELSE EscapeChars(SubSeq(s, 1, Len(s) \div 2))
              \o EscapeChars(SubSeq(s, (Len(s) \div 2) + 1, Len(s))) :
         s \in {text}})

Quote(s) == <<"\"">> \o EscapeChars(s) \o <<"\"">>

\* JSON.stringify(v) of a value holding no undefined
RECURSIVE JSONStringify(_)
RECURSIVE StringifyElements(_)
RECURSIVE StringifyMembers(_, _)

StringifyElements(a) ==
    IF a = <<>> THEN <<>>
    ELSE JSONStringify(Head(a))
         \o (IF Len(a) > 1 THEN <<",">> \o StringifyElements(Tail(a)) ELSE <<>>)

StringifyMembers(o, keys) ==
    IF keys = {} THEN <<>>
    ELSE The({Quote(k) \o <<":">> \o JSONStringify(o[k])
              \o (IF keys = {k} THEN <<>>
                  ELSE <<",">> \o StringifyMembers(o, keys \ {k})) :
              k \in {CHOOSE x \in keys : TRUE}})

JSONStringify(value) ==
    The({CASE v.t = "string" -> Quote(v.s)
           [] v.t = "array" -> <<"[">> \o StringifyElements(v.a) \o <<"]">>
           [] v.t = "object" ->
                <<"{">> \o StringifyMembers(v.o, DOMAIN v.o) \o <<"}">>
           [] OTHER -> JsString(v) :
         v \in {value}})

\* ------------------------------------------------------------------ errors

\* new Error(message): the message is kept as the sequence of its pieces,
\* in the order the code concatenates them.
Error(message) == [name |-> "Error", message |-> message]

\* `${error}`, that is String(error), of an Error object
ErrorToString(e) == <<e.name, ": ">> \o e.message

TypeError(what) == [name |-> "TypeError", message |-> <<what>>]

\* What a block of code ends with: a returned value or a thrown error.
Return(v) == [ok |-> TRUE, value |-> v]
Throw(e) == [ok |-> FALSE, error |-> e]

\* ------------------------------------------------------------ token manager

\* What the user may answer to prompt(): Cancel (null) or a typed string.
PromptAnswers == {Null} \cup StringsUpTo(MaxPromptLen)

\* Line 77 with the stored token refused one millisecond early; the property
\* of C2 tells it from line 77.
StoredTokenValidEarly(store, t) ==
    /\ TruthyString(GetItem(store, TOKEN_KEY))
    /\ TruthyString(GetItem(store, EXPIRY_KEY))
    /\ LessThan(t + 1, ParseInt(GetItem(store, EXPIRY_KEY)))

\* Line 77 with the stored token still accepted at the millisecond of its
\* expiry; the property of C10 tells it from line 77.
StoredTokenValidAtExpiry(store, t) ==
    /\ TruthyString(GetItem(store, TOKEN_KEY))
    /\ TruthyString(GetItem(store, EXPIRY_KEY))
    /\ LessThan(t - 1, ParseInt(GetItem(store, EXPIRY_KEY)))

\* line 77: storedToken && tokenExpiry && new Date().getTime() < parseInt(tokenExpiry)
StoredTokenValid(store, t) ==
    /\ TruthyString(GetItem(store, TOKEN_KEY))
    /\ TruthyString(GetItem(store, EXPIRY_KEY))
    /\ LessThan(t, ParseInt(GetItem(store, EXPIRY_KEY)))

\* Line 93 without the trim; the property of C7 tells it from line 93.
PromptRejectedUntrimmed(userToken) == ~TruthyString(userToken)

\* line 93: !userToken || userToken.trim() === ''
PromptRejected(userToken) ==
    ~TruthyString(userToken) \/ Trim(userToken) = <<>>

\* line 100: (new Date().getTime() + 3600000).toString()
ExpiryString(t) == NumberToString(t + TokenLifetime)

\* lines 103-105: the catch block of initializeAuth
InitializeAuthError(error) ==
    Error(<<"Failed to initialize OAuth authentication: ">> \o error.message)

\* initializeAuth without lines 99 and 100: the token is kept in memory and
\* not persisted; the property of C19 tells it from initializeAuth.
InitializeAuthUnpersisted(token, store, t0, t1, userToken) ==
    IF StoredTokenValid(store, t0)
    THEN [accessToken |-> GetItem(store, TOKEN_KEY), localStorage |-> store,
          prompted |-> FALSE, ok |-> TRUE, now |-> t0]
    ELSE IF PromptRejected(userToken)
    THEN [accessToken |-> token, localStorage |-> store,
          prompted |-> TRUE, ok |-> FALSE, now |-> t1,
          error |-> InitializeAuthError(
                        Error(<<"OAuth token is required to access FastMCP">>))]
    ELSE [accessToken |-> Trim(userToken), localStorage |-> store,
          prompted |-> TRUE, ok |-> TRUE, now |-> t1]

\* initializeAuth(), lines 70-107.  t0 is the clock when the stored expiry is
\* checked, t1 the clock when the prompt has returned (prompt() blocks the
\* thread for as long as the user takes).  The result gives the new client
\* state and what the call did.
InitializeAuthResult(token, store, t0, t1, userToken) ==
    IF StoredTokenValid(store, t0)
    THEN [accessToken |-> GetItem(store, TOKEN_KEY), localStorage |-> store,
          prompted |-> FALSE, ok |-> TRUE, now |-> t0]
    ELSE IF PromptRejected(userToken)
    THEN [accessToken |-> token, localStorage |-> store,
          prompted |-> TRUE, ok |-> FALSE, now |-> t1,
          error |-> InitializeAuthError(
                        Error(<<"OAuth token is required to access FastMCP">>))]
    ELSE [accessToken |-> Trim(userToken),
          localStorage |->
              SetItem(SetItem(store, TOKEN_KEY, Trim(userToken)),
                      EXPIRY_KEY, ExpiryString(t1)),
          prompted |-> TRUE, ok |-> TRUE, now |-> t1]

\* clearAuth without line 330, which removes the expiry entry; the property
\* of C8 tells it from clearAuth.
ClearAuthKeepsExpiry(token, store) ==
    [accessToken |-> Null, localStorage |-> RemoveItem(store, TOKEN_KEY)]

\* clearAuth without lines 329 and 330; the property of C9 tells it from
\* clearAuth.
ClearAuthMemoryOnly(token, store) ==
    [accessToken |-> Null, localStorage |-> store]

\* clearAuth without line 329, which removes the token entry; the property
\* of C20 tells it from clearAuth.
ClearAuthKeepsToken(token, store) ==
    [accessToken |-> Null, localStorage |-> RemoveItem(store, EXPIRY_KEY)]

\* clearAuth without line 331, which resets the token in memory; the property
\* of C21 tells it from clearAuth.
ClearAuthStorageOnly(token, store) ==
    [accessToken |-> token,
     localStorage |-> RemoveItem(RemoveItem(store, TOKEN_KEY), EXPIRY_KEY)]

\* clearAuth(), lines 328-333
ClearAuthResult(token, store) ==
    [accessToken |-> Null,
     localStorage |-> RemoveItem(RemoveItem(store, TOKEN_KEY), EXPIRY_KEY)]

\* close() with the removeItem of line 329 added; the property of C17 tells
\* it from close.
CloseRemovesToken(token, store) ==
    [accessToken |-> Null, localStorage |-> RemoveItem(store, TOKEN_KEY)]

\* close(), lines 335-338
CloseResult(token, store) == [accessToken |-> Null, localStorage |-> store]

\* ---------------------------------------------------- transport, normalizer

KError == <<"e", "r", "r", "o", "r">>
KResult == <<"r", "e", "s", "u", "l", "t">>
KResults == <<"r", "e", "s", "u", "l", "t", "s">>
KData == <<"d", "a", "t", "a">>
KContent == <<"c", "o", "n", "t", "e", "n", "t">>
KText == <<"t", "e", "x", "t">>
KCode == <<"c", "o", "d", "e">>
KMessage == <<"m", "e", "s", "s", "a", "g", "e">>

\* this.baseUrl, as the messages show it
BaseUrl == "https://escalationbot.fastmcp.app"

\* lines 160 and 193: `JSON-RPC Error: ${error.message} (Code: ${error.code})`
JsonRpcError(errorData) ==
    Error(<<"JSON-RPC Error: ">> \o JsString(Get(errorData, KMessage))
          \o <<" (Code: ">> \o JsString(Get(errorData, KCode)) \o <<")">>)

\* s.split('\n'): the lines of s, that is the pieces between its line
\* breaks (one more than s has line breaks)
SplitLines(s) ==
    LET breaks == {j \in 1..Len(s) : s[j] = "\n"}
        starts == {1} \cup {j + 1 : j \in breaks}
        start(k) == CHOOSE p \in starts :
                        Cardinality({q \in starts : q < p}) = k - 1
        end(p) == Min({j \in breaks : j >= p} \cup {Len(s) + 1}) - 1
    IN  [k \in 1..Cardinality(starts) |-> SubSeq(s, start(k), end(start(k)))]

DataPrefix == <<"d", "a", "t", "a", ":", " ">>

\* Lines 144-151 without the break of line 149: the last line that starts
\* with 'data: ' wins; the property of C14 tells it from lines 144-151.
RECURSIVE LastDataLine(_)
LastDataLine(fromLines) ==
    The({IF lines = <<>> THEN <<>>
         ELSE IF StartsWithAt(lines[Len(lines)], 1, DataPrefix)
         THEN SubSeq(lines[Len(lines)], Len(DataPrefix) + 1,
                     Len(lines[Len(lines)]))
         ELSE LastDataLine(SubSeq(lines, 1, Len(lines) - 1)) :
         lines \in {fromLines}})

\* lines 144-151: the first line that starts with 'data: ', without its
\* first 6 characters; '' when there is none
RECURSIVE FirstDataLine(_)
FirstDataLine(fromLines) ==
    The({IF lines = <<>> THEN <<>>
         ELSE IF StartsWithAt(Head(lines), 1, DataPrefix)
         THEN SubSeq(Head(lines), Len(DataPrefix) + 1, Len(Head(lines)))
         ELSE FirstDataLine(Tail(lines)) :
         lines \in {fromLines}})

\* Lines 163-178 without lines 169-174: the text of the first content item is
\* not parsed; the property of C13 tells it from lines 163-178.
SsePayloadUnparsed(parsedSSE) ==
    LET result == Get(parsedSSE, KResult)
    IN  Return(IF Truthy(result) THEN result ELSE parsedSSE)

\* lines 163-178: the payload of a parsed data line that carries no error
SsePayload(parsedSSE) ==
    LET result == Get(parsedSSE, KResult)
        contentArray == Get(result, KContent)
        firstContent == contentArray.a[1]
        plain == Return(IF Truthy(result) THEN result ELSE parsedSSE)
    IN  IF Truthy(result) /\ Truthy(contentArray)
           /\ IsArray(contentArray) /\ Len(contentArray.a) > 0
        THEN IF IsNullish(firstContent)
             THEN Throw(TypeError("Cannot read properties of null (reading 'text')"))
             ELSE IF Truthy(Get(firstContent, KText))
             THEN JSONParse(Get(firstContent, KText))
             ELSE plain
        ELSE plain

\* lines 156-178: the body of the inner try
SseTry(dataLine) ==
    The({IF ~p.ok THEN Throw(p.error)
         ELSE IF IsNullish(p.value)
         THEN Throw(TypeError("Cannot read properties of null (reading 'error')"))
         ELSE IF Truthy(Get(p.value, KError))
         THEN Throw(JsonRpcError(Get(p.value, KError)))
         ELSE SsePayload(p.value) :
         p \in {JSONParseText(dataLine)}})

\* lines 179-182: the inner catch
SseCatch(parseError) ==
    Error(<<"Failed to parse SSE response: ">> \o ErrorToString(parseError))

\* lines 140-186: response.data is a string
ParseSse(text) ==
    The({IF dataLine # <<>>
         THEN The({IF r.ok THEN r ELSE Throw(SseCatch(r.error)) :
                   r \in {SseTry(dataLine)}})
         ELSE Throw(Error(<<"No data line found in SSE response">>)) :
         dataLine \in {FirstDataLine(SplitLines(text))}})

\* Lines 189-200 without lines 196-198: the response is returned whole; the
\* property of C12 tells it from the structured branch.
ParseStructuredWhole(responseData) ==
    IF HasKey(responseData, KError)
    THEN IF IsNullish(responseData.o[KError])
         THEN Throw(TypeError("Cannot read properties of null (reading 'message')"))
         ELSE Throw(JsonRpcError(responseData.o[KError]))
    ELSE IF responseData.t \notin {"object", "array"}
    THEN Throw(TypeError("Cannot use 'in' operator to search for 'result'"))
    ELSE Return(responseData)

\* lines 189-200: response.data is no string
ParseStructured(responseData) ==
    IF HasKey(responseData, KError)
    THEN IF IsNullish(responseData.o[KError])
         THEN Throw(TypeError("Cannot read properties of null (reading 'message')"))
         ELSE Throw(JsonRpcError(responseData.o[KError]))
    ELSE IF responseData.t \notin {"object", "array"}
    THEN Throw(TypeError("Cannot use 'in' operator to search for 'result'"))
    ELSE IF HasKey(responseData, KResult) THEN Return(responseData.o[KResult])
    ELSE Return(responseData)

\* lines 137-200: what the try block does with a 2xx response
HandleResponse(data) ==
    IF IsString(data) THEN ParseSse(data.s) ELSE ParseStructured(data)

\* What axios throws.  response is the [status, statusText, data] of a
\* response outside 2xx; request says whether the request was made.
AxiosError(code, message, hasResponse, response, hasRequest) ==
    [name |-> "AxiosError", code |-> code, message |-> <<message>>,
     hasResponse |-> hasResponse, response |-> response,
     hasRequest |-> hasRequest]

IsAxiosError(e) == e.name = "AxiosError"

\* message.includes(piece), for a piece the message holds whole
Includes(message, piece) == \E i \in 1..Len(message) : message[i] = piece

NoResponse == [status |-> 0, statusText |-> "", data |-> JNull]

\* lines 202-231: the catch block of callTool
CallToolCatch(error, toolName) ==
    IF IsAxiosError(error)
       /\ (error.code = "NETWORK_ERROR" \/ Includes(error.message, "Network Error"))
    THEN Error(<<"Network error connecting to FastMCP server at ", BaseUrl,
                 ". Please check if the server is running and accessible.">>)
    ELSE IF IsAxiosError(error) /\ error.hasResponse
    THEN Error(<<"FastMCP server returned error ">>
               \o NumberToString(error.response.status)
               \o <<": ", error.response.statusText, "\nResponse: ">>
               \o JSONStringify(error.response.data)
               \o <<"\nPlease check your OAuth token and API documentation.">>)
    ELSE IF IsAxiosError(error) /\ error.hasRequest
    THEN Error(<<"No response received from FastMCP server. Please check the server URL: ",
                 BaseUrl>>)
    ELSE Error(<<"Failed to call tool ", toolName, ": ">> \o ErrorToString(error))

\* What client.post() settles with: a 2xx response with its data, or a thrown
\* AxiosError.
HttpOk(data) == [settled |-> "response", data |-> data]
HttpThrows(error) == [settled |-> "error", error |-> error]

\* lines 114-231: callTool from the moment the POST settles
CallToolSettle(http, toolName) ==
    IF http.settled = "error" THEN Throw(CallToolCatch(http.error, toolName))
    ELSE The({IF r.ok THEN r ELSE Throw(CallToolCatch(r.error, toolName)) :
              r \in {HandleResponse(http.data)}})

\* x > 0 for the value of a length property
GreaterThanZero(v) ==
    CASE v.t = "number" -> v.n > 0
      [] v.t = "boolean" -> v.b
      [] v.t = "string" -> \E n \in ParseInt(v.s) :
                               n > 0 /\ NumberToString(n) = v.s
      [] OTHER -> FALSE

\* lines 275-302: the value assigned to results
ExtractResults(result) ==
    IF Truthy(result) /\ TypeOfObject(result)
    THEN IF Truthy(Get(result, KResults)) /\ IsArray(Get(result, KResults))
         THEN Get(result, KResults)
         ELSE IF Truthy(Get(result, KData))
                 /\ Truthy(Get(Get(result, KData), KResults))
         THEN Get(Get(result, KData), KResults)
         ELSE IF IsArray(result) THEN result
         ELSE IF Truthy(Get(result, KContent)) THEN JArr(<<result>>)
         ELSE JArr(<<>>)
    ELSE JArr(<<>>)

\* lines 308-321: results is logged element by element and returned
ReturnResults(results) ==
    IF GreaterThanZero(Get(results, KLength))
    THEN IF ~IsArray(results)
         THEN Throw(TypeError("results.forEach is not a function"))
         ELSE IF \E i \in 1..Len(results.a) : IsNullish(results.a[i])
         THEN Throw(TypeError("Cannot read properties of null (reading 'content')"))
         ELSE Return(results)
    ELSE Return(JArr(<<>>))

\* lines 262-326: search from the moment callTool settles; its catch block
\* throws the error it caught
SearchSettle(called) ==
    IF called.ok
    THEN The({ReturnResults(results) : results \in {ExtractResults(called.value)}})
    ELSE called

\* lines 235-247: the try block of testConnection from the moment search
\* settles.  Both branches of line 240 return true; an error of search is
\* thrown on to the catch block of line 247.
TestConnectionSearched(searched) ==
    IF searched.ok THEN Return(JBool(TRUE)) ELSE Throw(searched.error)

\* Lines 250-258 without the inner try and catch: an error of the GET leaves
\* testConnection; the property of C11 tells it from the catch block.
TestConnectionPingThrows(http) ==
    IF http.settled = "response" THEN Return(JBool(TRUE))
    ELSE Throw(http.error)

\* lines 250-258: the catch block of testConnection from the moment the GET
\* of line 252 settles
TestConnectionPinged(http) ==
    IF http.settled = "response" THEN Return(JBool(TRUE))
    ELSE Return(JBool(FALSE))

\* -------------------------------------------------------- server responses

KScore == <<"s", "c", "o", "r", "e">>
KId == <<"i", "d">>
KJsonrpc == <<"j", "s", "o", "n", "r", "p", "c">>
KType == <<"t", "y", "p", "e">>

Hi == <<"h", "i">>
Yo == <<"y", "o">>
Bad == <<"b", "a", "d">>

\* Two result records (SearchResult, lines 3-7).
Record1 == JObj(Merge(Field(KContent, JStr(Hi)), Field(KScore, JNum(1))))
Record2 == JObj(Field(KContent, JStr(Yo)))

\* A JSON-RPC error object (JsonRpcError, lines 18-22).
ErrorObject(code, message) ==
    JObj(Merge(Field(KCode, JNum(code)), Field(KMessage, JStr(message))))

ErrorCodes == {7, 0 - 32601}
ErrorMessages == {Bad, <<>>}
ErrorObjects == {ErrorObject(c, m) : c \in ErrorCodes, m \in ErrorMessages}

\* A JSON-RPC response (JsonRpcResponse, lines 24-29) with one more member.
Envelope(key, value) ==
    JObj(Merge(Merge(Field(KJsonrpc, JStr(<<"2", ".", "0">>)), Field(KId, JNum(1))),
               Field(key, value)))

\* The body of a text/event-stream response whose only data line is text.
EventPrefix == <<"e", "v", "e", "n", "t", ":", " ", "m", "e", "s", "s", "a", "g", "e", "\n">>
SseBody(text) == EventPrefix \o DataPrefix \o text \o <<"\n", "\n">>

\* The result of a tool whose output, payload, is sent as the text of its
\* first content item.
TextContent(payload) ==
    JObj(Field(KContent,
         JArr(<<JObj(Merge(Field(KType, JStr(KText)),
                           Field(KText, JStr(JSONStringify(payload)))))>>)))

NetworkError == AxiosError("ERR_NETWORK", "Network Error", FALSE, NoResponse, TRUE)
TimeoutError ==
    AxiosError("ECONNABORTED", "timeout of 30000ms exceeded", FALSE, NoResponse, TRUE)
StatusError(status, statusText, data) ==
    AxiosError("ERR_BAD_REQUEST", "Request failed with status code", TRUE,
               [status |-> status, statusText |-> statusText, data |-> data], TRUE)

Unauthorized ==
    StatusError(401, "Unauthorized", JObj(Field(KError, JStr(Bad))))
ServerError == StatusError(500, "Internal Server Error", JStr(<<>>))

TransportFailures ==
    {HttpThrows(e) : e \in {NetworkError, TimeoutError, Unauthorized, ServerError}}

ResultsOf(records) == JObj(Field(KResults, JArr(records)))

\* The responses the server gives in the specification of the whole client:
\* one of each kind.
SampleResponses ==
    {HttpThrows(NetworkError), HttpThrows(TimeoutError), HttpThrows(Unauthorized)}
    \cup {HttpOk(Envelope(KResult, ResultsOf(<<Record1>>))),
          HttpOk(Envelope(KError, ErrorObject(7, Bad))),
          HttpOk(JStr(SseBody(JSONStringify(
              Envelope(KResult, TextContent(ResultsOf(<<Record1, Record2>>))))))),
          HttpOk(JStr(SseBody(JSONStringify(
              Envelope(KError, ErrorObject(7, Bad)))))),
          HttpOk(JStr(EventPrefix))}

\* The payloads a tool may resolve to: each of the members results, data and
\* content absent (JUndefined) or of one of several shapes, and values that
\* are no objects.
Optional(key, value) ==
    IF value = JUndefined THEN EmptyObject ELSE Field(key, value)

ResultsValues ==
    {JUndefined, JNull, JNum(5), JStr(Hi), JObj(EmptyObject),
     JArr(<<>>), JArr(<<Record1>>), JArr(<<Record1, Record2>>), JArr(<<JNull>>)}

DataValues ==
    {JUndefined, JNull, JStr(Hi)}
    \cup {JObj(Optional(KResults, r)) : r \in ResultsValues}

ContentValues == {JUndefined, JStr(Hi), JStr(<<>>)}

ObjectPayloads ==
    {JObj(Merge(Merge(Optional(KResults, r), Optional(KData, d)),
                Optional(KContent, c))) :
        r \in ResultsValues, d \in DataValues, c \in ContentValues}

OtherPayloads ==
    {JNull, JNum(5), JBool(TRUE), JStr(Hi),
     JArr(<<>>), JArr(<<Record1>>), JArr(<<Record1, JNull>>)}

Payloads == ObjectPayloads \cup OtherPayloads

\* The bodies that carry the payload p: a JSON-RPC response, p alone, and the
\* event streams whose data line is a JSON-RPC response with p as its result
\* or with p as the text of its first content item.
BodiesOf(p) ==
    {Envelope(KResult, p), p,
     JStr(SseBody(JSONStringify(Envelope(KResult, p)))),
     JStr(SseBody(JSONStringify(Envelope(KResult, TextContent(p)))))}

\* The bodies that carry the JSON-RPC error e.
StructuredError(e) == Envelope(KError, e)
SseError(e) == JStr(SseBody(JSONStringify(Envelope(KError, e))))

\* Texts that are no event stream with a JSON data line.
BrokenTexts ==
    {JStr(<<>>), JStr(EventPrefix), JStr(SseBody(<<"{", "x">>)),
     JStr(SseBody(<<"n", "u", "l", "l">>))}

\* Texts of two lines, most of them with two data lines: each remainder is
\* a JSON-RPC response, a text that is no JSON, or empty; and texts whose
\* first line only resembles a data line.
StreamTexts ==
    LET one == JSONStringify(Envelope(KResult, ResultsOf(<<Record1>>)))
        two == JSONStringify(Envelope(KResult, ResultsOf(<<Record2>>)))
        remainders == {one, two, <<"{", "x">>, <<>>}
    IN  {JStr(DataPrefix \o a \o <<"\n">> \o DataPrefix \o b) :
            a \in remainders, b \in remainders}
        \cup {JStr(<<"d", "a", "t", "a", ":">> \o one \o <<"\n">>
                   \o DataPrefix \o two),
              JStr(<<" ">> \o DataPrefix \o one \o <<"\n">>
                   \o DataPrefix \o two \o <<"\n">>)}

AllResponses ==
    TransportFailures
    \cup {HttpOk(b) : b \in UNION {BodiesOf(p) : p \in Payloads}}
    \cup {HttpOk(StructuredError(e)) : e \in ErrorObjects \cup {JNull, JStr(Bad)}}
    \cup {HttpOk(SseError(e)) : e \in ErrorObjects \cup {JNull, JStr(Bad)}}
    \cup {HttpOk(b) : b \in BrokenTexts \cup StreamTexts}

\* ------------------------------------------------------------------ state

\* The tool the application asks for: search() calls callTool('search', ...)
\* (line 264) and so does the Debug Search button (SearchComponent line 108).
AppTool == "search"

\* A call of callTool (fn = "callTool") or of search (fn = "search") that has
\* not ended yet is a record in the bag calls:
\*   [pc |-> "send", fn, tool, acquired]  the credential check of lines 110-112
\*        is done and the request waits for the request interceptor; acquired
\*        says whether the check ran initializeAuth;
\*   [pc |-> "wait", fn, tool]  the POST is sent and not settled.
\* A call that ends leaves its outcome in last.
Sending(fn, tool, acquired) ==
    [pc |-> "send", fn |-> fn, tool |-> tool, acquired |-> acquired]

Waiting(fn, tool) == [pc |-> "wait", fn |-> fn, tool |-> tool]

One(c) == SetToBag({c})

InFlight == BagCardinality(calls)

Cleared == <<"cleared">>

Never == 0 - 1

Init ==
    /\ now = 0
    /\ ticks = 0
    /\ accessToken = Null
    /\ localStorage = EmptyStorage
    /\ calls = EmptyBag
    /\ lastAcquired = Null
    /\ acquiredAt = Never
    /\ last = [op |-> "new"]
    /\ component = [results |-> JArr(<<>>), loading |-> FALSE, error |-> Null]
    /\ searches = <<>>

\* The clock advances between two steps of the program.
Tick ==
    /\ ticks < MaxTicks
    /\ \E d \in {1, TokenLifetime - 1} : now' = now + d
    /\ ticks' = ticks + 1
    /\ last' = [op |-> "tick"]
    /\ UNCHANGED <<accessToken, localStorage, calls, lastAcquired, acquiredAt>>
    /\ UNCHANGED <<component, searches>>

\* What the user does when initializeAuth runs at time t: nothing when no
\* prompt is shown; else an answer, given at once or one millisecond later
\* (a delay counts as an advance of the clock).
PromptInputs ==
    IF StoredTokenValid(localStorage, now)
    THEN {[answer |-> Null, delay |-> 0]}
    ELSE [answer : PromptAnswers,
          delay : {0} \cup (IF ticks < MaxTicks THEN {1} ELSE {})]

\* What a step did to the credential: whether it changed this.accessToken
\* and whether it changed an entry of localStorage.
Effect ==
    [memory |-> accessToken' # accessToken,
     storage |-> localStorage' # localStorage]

\* The record of one run of initializeAuth: by is the method that called it
\* ("initializeAuth" when the application did), t0 the clock at the check of
\* line 77, acquiredBefore the token the last successful run had yielded.
AcquireRecord(r, userToken, by) ==
    [op |-> "initializeAuth", by |-> by, t0 |-> now,
     acquiredBefore |-> lastAcquired,
     prompted |-> r.prompted, ok |-> r.ok,
     answer |-> IF r.prompted THEN userToken ELSE Null,
     error |-> IF r.ok THEN Error(<<>>) ELSE r.error,
     changed |-> Effect]

\* One run of initializeAuth on the client's state, called by the method by;
\* started holds what the caller goes on with when the run succeeds, failed
\* what it goes on with when the run throws (nothing when the caller ends
\* with the error).
RunInitializeAuth(by, started, failed) ==
    \E user \in PromptInputs :
        \E r \in {InitializeAuthResult(accessToken, localStorage, now,
                                        now + user.delay, user.answer)} :
            /\ accessToken' = r.accessToken
            /\ localStorage' = r.localStorage
            /\ now' = r.now
            /\ ticks' = ticks + (r.now - now)
            /\ lastAcquired' = IF r.ok THEN r.accessToken ELSE lastAcquired
            /\ acquiredAt' = IF r.ok /\ r.prompted THEN r.now ELSE acquiredAt
            /\ calls' = calls (+) (IF r.ok THEN started ELSE failed)
            /\ last' = AcquireRecord(r, user.answer, by)
            /\ UNCHANGED <<component, searches>>

\* initializeAuth() called by the application (App.tsx line 19).
InitializeAuth == RunInitializeAuth("initializeAuth", EmptyBag, EmptyBag)

\* clearAuth(), called by the Clear Auth button, whose handler
\* (SearchComponent lines 128-130) goes on to setError(null) and
\* setResults([]).
ClearAuth ==
    LET r == ClearAuthResult(accessToken, localStorage)
    IN  /\ accessToken' = r.accessToken
        /\ localStorage' = r.localStorage
        /\ lastAcquired' = IF lastAcquired = Null THEN Null ELSE Cleared
        /\ acquiredAt' = Never
        /\ last' = [op |-> "clearAuth", changed |-> Effect,
                     repeated |-> last.op = "clearAuth"]
        /\ component' = [component EXCEPT !.error = Null,
                                           !.results = JArr(<<>>)]
        /\ UNCHANGED <<now, ticks, calls, searches>>

\* close(), called when the application unmounts.
Close ==
    LET r == CloseResult(accessToken, localStorage)
    IN  /\ accessToken' = r.accessToken
        /\ localStorage' = r.localStorage
        /\ last' = [op |-> "close", changed |-> Effect]
        /\ UNCHANGED <<now, ticks, calls, lastAcquired, acquiredAt>>
        /\ UNCHANGED <<component, searches>>

\* callTool(tool, ...) or search(...) is called with a credential in memory
\* (line 110): it goes on to the request.
CallWithToken(fn, tool) ==
    /\ InFlight < MaxCalls
    /\ accessToken # Null
    /\ calls' = calls (+) One(Sending(fn, tool, FALSE))
    /\ last' = [op |-> "call", fn |-> fn]
    /\ UNCHANGED <<now, ticks, accessToken, localStorage, lastAcquired,
                   acquiredAt>>
    /\ UNCHANGED <<component, searches>>

\* callTool or search is called with no credential in memory: line 111 runs
\* initializeAuth, whose error ends the call (it is thrown outside the try
\* block of callTool, and search throws what it catches).
CallWithoutToken(fn, tool) ==
    /\ InFlight < MaxCalls
    /\ accessToken = Null
    /\ RunInitializeAuth(fn, One(Sending(fn, tool, TRUE)), EmptyBag)

Call ==
    \E fn \in {"callTool", "search"} :
        CallWithToken(fn, AppTool) \/ CallWithoutToken(fn, AppTool)

\* lines 57-63 and 135: the request interceptor attaches the credential the
\* client holds now, and the POST is sent.  header is the token of the
\* Authorization header, Null when the request has none.
Send(c) ==
    /\ BagIn(c, calls)
    /\ c.pc = "send"
    /\ calls' = (calls (-) One(c)) (+) One(Waiting(c.fn, c.tool))
    /\ last' = [op |-> "send", fn |-> c.fn, header |-> accessToken,
                 acquired |-> c.acquired]
    /\ UNCHANGED <<now, ticks, accessToken, localStorage, lastAcquired,
                   acquiredAt>>
    /\ UNCHANGED <<component, searches>>

\* What a call of fn makes of the settled POST: callTool's outcome, which
\* search passes through lines 269-325.
CallOutcome(fn, tool, http) ==
    The({IF fn = "search" THEN SearchSettle(called) ELSE called :
         called \in {CallToolSettle(http, tool)}})

\* CallOutcome of the sample responses, as a table.
SampleOutcomes ==
    [fn \in {"callTool", "search"}, http \in SampleResponses |->
        CallOutcome(fn, AppTool, http)]

\* The call c settles, and when it has failed its request is sent again;
\* the property of C16 tells it from callTool, which has no retry.
SettleRetry(c, http, outcome) ==
    /\ BagIn(c, calls)
    /\ c.pc = "wait"
    /\ calls' = (calls (-) One(c))
                    (+) (IF outcome.ok THEN EmptyBag
                         ELSE One(Sending(c.fn, c.tool, FALSE)))
    /\ UNCHANGED <<now, ticks, accessToken, localStorage, lastAcquired,
                   acquiredAt>>
    /\ UNCHANGED <<component, searches>>
    /\ last' = [op |-> "settle", fn |-> c.fn, tool |-> c.tool,
                 http |-> http, changed |-> Effect, outcome |-> outcome]

\* The POST of the call c settles with http, and the call with outcome.
Settle(c, http, outcome) ==
    /\ BagIn(c, calls)
    /\ c.pc = "wait"
    /\ calls' = calls (-) One(c)
    /\ UNCHANGED <<now, ticks, accessToken, localStorage, lastAcquired,
                   acquiredAt>>
    /\ UNCHANGED <<component, searches>>
    /\ last' = [op |-> "settle", fn |-> c.fn, tool |-> c.tool,
                 http |-> http, changed |-> Effect, outcome |-> outcome]

Respond ==
    \E c \in BagToSet(calls), http \in SampleResponses :
        /\ c.fn \in {"callTool", "search"}
        /\ Settle(c, http, SampleOutcomes[c.fn, http])

SendNext == \E c \in BagToSet(calls) : Send(c)

Next ==
    \/ Tick
    \/ InitializeAuth
    \/ ClearAuth
    \/ Close
    \/ Call
    \/ SendNext
    \/ Respond

Spec == Init /\ [][Next]_vars

\* testConnection(), called by the Test Connection button (SearchComponent
\* line 92).  Its search is a call with fn = "testConnection"; when the search
\* has failed the call is the record Pinging: the GET of line 252 is sent and
\* not settled.
Pinging == [pc |-> "ping", fn |-> "testConnection", tool |-> AppTool]

\* What the GET of line 252 may settle with.
PingResponses == {HttpOk(JStr(Hi))} \cup TransportFailures

\* lines 234-238 and 110-112: testConnection calls search, which calls
\* callTool; an error of initializeAuth is caught at line 247.
TestConnection ==
    \/ CallWithToken("testConnection", AppTool)
    \/ /\ InFlight < MaxCalls
       /\ accessToken = Null
       /\ RunInitializeAuth("testConnection",
                             One(Sending("testConnection", AppTool, TRUE)),
                             One(Pinging))

\* The POST of testConnection's search settles with http: the call returns
\* true, or goes on to the GET.  outcome is what the try block ended with.
TestSearched ==
    \E c \in BagToSet(calls), http \in SampleResponses :
        \E r \in {TestConnectionSearched(SampleOutcomes["search", http])} :
            /\ c.fn = "testConnection"
            /\ c.pc = "wait"
            /\ calls' = (calls (-) One(c))
                            (+) (IF r.ok THEN EmptyBag ELSE One(Pinging))
            /\ UNCHANGED <<now, ticks, accessToken, localStorage,
                           lastAcquired, acquiredAt>>
            /\ UNCHANGED <<component, searches>>
            /\ last' = [op |-> "testConnection", http |-> http,
                         changed |-> Effect, ended |-> r.ok, outcome |-> r]

\* The GET settles with http, and testConnection returns.
TestPinged ==
    \E http \in PingResponses :
        /\ BagIn(Pinging, calls)
        /\ calls' = calls (-) One(Pinging)
        /\ UNCHANGED <<now, ticks, accessToken, localStorage, lastAcquired,
                       acquiredAt>>
        /\ UNCHANGED <<component, searches>>
        /\ last' = [op |-> "ping", http |-> http, changed |-> Effect,
                     outcome |-> TestConnectionPinged(http)]

NextConnection ==
    \/ Tick
    \/ InitializeAuth
    \/ ClearAuth
    \/ Close
    \/ InFlight < MaxPending /\ Call
    \/ InFlight < MaxPending /\ TestConnection
    \/ SendNext
    \/ Respond
    \/ TestSearched
    \/ TestPinged

\* The client with all its operations, testConnection among them, and at
\* most MaxPending calls in flight.
SpecConnection == Init /\ [][NextConnection]_vars

\* The normalizer alone: a token was obtained from the prompt, one call of
\* callTool (of either tool) or of search has sent its POST, and the server
\* answers it with any of AllResponses.
OtherTool == "lookup"

InitNormalizer ==
    /\ now = 0
    /\ ticks = 0
    /\ accessToken = <<"a">>
    /\ localStorage =
           SetItem(SetItem(EmptyStorage, TOKEN_KEY, <<"a">>),
                   EXPIRY_KEY, ExpiryString(0))
    /\ lastAcquired = <<"a">>
    /\ acquiredAt = 0
    /\ \E c \in {Waiting("callTool", AppTool), Waiting("callTool", OtherTool),
                  Waiting("search", AppTool)} :
          /\ calls = One(c)
          /\ last = [op |-> "send", fn |-> c.fn, header |-> <<"a">>,
                      acquired |-> TRUE]
    /\ component = [results |-> JArr(<<>>), loading |-> FALSE, error |-> Null]
    /\ searches = <<>>

RespondAny ==
    \E c \in BagToSet(calls), http \in AllResponses :
        Settle(c, http, CallOutcome(c.fn, c.tool, http))

NextNormalizer == RespondAny

SpecNormalizer == InitNormalizer /\ [][NextNormalizer]_vars

\* SearchComponent alone.  What client.search does between its call and its
\* end is left out here: the component sees a promise that settles with one of
\* search's outcomes, at any later time and in any order with the others.  The
\* Test Connection and Debug Search buttons set no state of the component.

\* handleSearch(), lines 16-37, up to the await of line 28.  searchText is
\* what the input holds when the handler runs.  The Enter key runs it at any
\* time (lines 39-43).
HandleSearch ==
    \E searchText \in StringsUpTo(1) :
        IF Trim(searchText) = <<>>
        THEN /\ component' =
                    [component EXCEPT
                        !.error = <<"Please enter a search query">>]
             /\ last' = [op |-> "handleSearch", started |-> FALSE]
             /\ UNCHANGED <<now, ticks, accessToken, localStorage, calls,
                            lastAcquired, acquiredAt, searches>>
        ELSE /\ Len(searches) < MaxSearches
             /\ component' = [results |-> JArr(<<>>), loading |-> TRUE,
                              error |-> Null]
             /\ searches' = Append(searches, [pc |-> "await"])
             /\ last' = [op |-> "handleSearch", started |-> TRUE]
             /\ UNCHANGED <<now, ticks, accessToken, localStorage, calls,
                            lastAcquired, acquiredAt>>

\* The Search button, lines 81-87: disabled while loading.
ClickSearch == ~component.loading /\ HandleSearch

\* lines 28-36: the search that the i-th started run of handleSearch awaits
\* settles, and the run goes on to its end: setResults or setError, then
\* setLoading(false).
SearchSettled ==
    \E i \in 1..Len(searches), http \in SampleResponses :
        \E r \in {SampleOutcomes["search", http]} :
            /\ searches[i].pc = "await"
            /\ component' =
                   IF r.ok
                   THEN [component EXCEPT !.results = r.value,
                                          !.loading = FALSE]
                   ELSE [component EXCEPT !.error = r.error.message,
                                          !.loading = FALSE]
            /\ searches' =
                   [searches EXCEPT ![i] = [pc |-> "done", outcome |-> r]]
            /\ last' = [op |-> "searched", id |-> i, outcome |-> r]
            /\ UNCHANGED <<now, ticks, accessToken, localStorage, calls,
                           lastAcquired, acquiredAt>>

NextSearch ==
    \/ ClickSearch
    \/ HandleSearch
    \/ SearchSettled
    \/ ClearAuth

SpecSearch == Init /\ [][NextSearch]_vars

\* ----------------------------------------------------------------- claims

\* The persisted expiry has passed at time t.
Expired(store, t) ==
    \E n \in ParseInt(GetItem(store, EXPIRY_KEY)) : ~(t < n)

\* The requests that are sent and not settled.
Posted == {c \in BagToSet(calls) : c.pc = "wait"}

\* C1: a tool call never sends its POST with a credential whose persisted
\* expiry has passed unless that call ran initializeAuth first.
C1_NoStaleSend ==
    (last.op = "send" /\ last.header # Null /\ Expired(localStorage, now))
        => last.acquired

\* C2: when initializeAuth has succeeded, no clearAuth has run since, and it
\* runs again while the clock is below the persisted expiry, the run shows no
\* prompt, yields the token the earlier run yielded, leaves both persisted
\* entries as they were and sends no request.
C2_ReuseWithinLifetime ==
    [][(/\ last'.op = "initializeAuth"
        /\ lastAcquired \notin {Null, Cleared}
        /\ LessThan(now, ParseInt(GetItem(localStorage, EXPIRY_KEY))))
       => (/\ ~last'.prompted
           /\ last'.ok
           /\ accessToken' = lastAcquired
           /\ lastAcquired' = lastAcquired
           /\ localStorage' = localStorage
           /\ Posted' = Posted)]_vars

\* The kinds of failure the specification names, read off the message of the
\* Error the code throws: its first piece says which throw statement built
\* it.  The catch-all of callTool (line 230) wraps every error that is no
\* AxiosError; what it wraps is a JSON-RPC error of the structured branch
\* (line 193) or a failure to read the response.  An error that none of the
\* client's catch blocks has wrapped has no kind.
ErrorKind(e) ==
    IF e.name # "Error" \/ e.message = <<>> THEN "none"
    ELSE IF e.message[1] = "Failed to initialize OAuth authentication: "
    THEN "AuthRequired"
    ELSE IF e.message[1] \in
            {"Network error connecting to FastMCP server at ",
             "FastMCP server returned error ",
             "No response received from FastMCP server. Please check the server URL: "}
    THEN "TransportError"
    ELSE IF e.message[1] = "Failed to call tool "
    THEN IF Len(e.message) >= 6 /\ e.message[4] = "Error"
            /\ e.message[6] = "JSON-RPC Error: "
         THEN "RemoteToolError"
         ELSE "MalformedResponse"
    ELSE "none"

\* Neither the token nor its expiry is persisted.
NothingPersisted(store) ==
    TOKEN_KEY \notin DOMAIN store /\ EXPIRY_KEY \notin DOMAIN store

\* initializeAuth has run a second time, at the last millisecond of the
\* lifetime of the token it had stored, and reused that token.
C2_Witness ==
    /\ last.op = "initializeAuth"
    /\ last.acquiredBefore \notin {Null, Cleared}
    /\ ~last.prompted
    /\ accessToken = last.acquiredBefore
    /\ ParseInt(GetItem(localStorage, EXPIRY_KEY)) = {last.t0 + 1}

\* callTool has settled on a response that carries the JSON-RPC error e.
ErrorReceived(e) ==
    /\ last.op = "settle"
    /\ last.fn = "callTool"
    /\ last.http \in {HttpOk(StructuredError(e)), HttpOk(SseError(e))}

\* The text is part of the message.
Mentions(message, text) ==
    \E i \in 1..Len(message) :
        i + Len(text) - 1 <= Len(message)
        /\ SubSeq(message, i, i + Len(text) - 1) = text

\* C4: for a response that carries a JSON-RPC error with code c and message
\* m, as a structured object or as the data line of an event stream, callTool
\* fails with a RemoteToolError that carries c and m.
C4_RemoteToolError ==
    \A e \in ErrorObjects :
        ErrorReceived(e)
            => (/\ ~last.outcome.ok
                /\ ErrorKind(last.outcome.error) = "RemoteToolError"
                /\ Mentions(last.outcome.error.message,
                            NumberToString(Get(e, KCode).n))
                /\ Mentions(last.outcome.error.message, Get(e, KMessage).s))

\* The result sequence the five rules give for the payload p.  A content
\* member counts when the code takes it for one (line 295: it is truthy).
RuleResult(p) ==
    IF IsArray(Get(p, KResults)) THEN Get(p, KResults)
    ELSE IF IsArray(Get(Get(p, KData), KResults))
    THEN Get(Get(p, KData), KResults)
    ELSE IF IsArray(p) THEN p
    ELSE IF Truthy(Get(p, KContent)) THEN JArr(<<p>>)
    ELSE JArr(<<>>)

\* C5: when callTool resolves to a payload, search returns the sequence that
\* the first applicable of the five rules gives: the array results, the array
\* data.results, the payload that is an array, the payload with a content
\* member as the only element, the empty sequence.
C5_ExtractionRules ==
    (last.op = "settle" /\ last.fn = "search")
        => LET called == CallToolSettle(last.http, last.tool)
           IN  called.ok => last.outcome = Return(RuleResult(called.value))

\* C6: whatever the response, search ends with an array or with a failure of
\* one of the four kinds.
C6_SequenceOrTypedFailure ==
    (last.op = "settle" /\ last.fn = "search")
        => \/ last.outcome.ok /\ IsArray(last.outcome.value)
           \/ /\ ~last.outcome.ok
              /\ ErrorKind(last.outcome.error) \in
                    {"AuthRequired", "TransportError", "RemoteToolError",
                     "MalformedResponse"}

\* initializeAuth found a persisted token whose expiry had passed and
\* obtained no other.
FoundExpired ==
    /\ last.op = "initializeAuth"
    /\ ~last.ok
    /\ GetItem(localStorage, TOKEN_KEY) # Null
    /\ Expired(localStorage, last.t0)

\* The server answered a tool call with an HTTP error status.
RejectedByServer ==
    /\ last.op = "settle"
    /\ last.http.settled = "error"
    /\ last.http.error.hasResponse

\* C3: when initializeAuth finds a persisted token whose expiry has passed, or
\* the server answers a tool call with an HTTP error status, the credential is
\* invalidated: this.accessToken is reset and both persisted entries are
\* removed.
C3_InvalidatedOnDetection ==
    (FoundExpired \/ RejectedByServer)
        => (accessToken = Null /\ NothingPersisted(localStorage))

\* The prompt was cancelled, or answered with white space only.
NoAnswer(answer) ==
    answer = Null \/ \A i \in 1..Len(answer) : answer[i] = " "

\* C7: when the prompt is cancelled or answered with an empty or white-space
\* string, initializeAuth fails with AuthRequired and changes neither
\* this.accessToken nor localStorage.
C7_RejectedAnswer ==
    (last.op = "initializeAuth" /\ last.prompted /\ NoAnswer(last.answer))
        => (/\ ~last.ok
            /\ ErrorKind(last.error) = "AuthRequired"
            /\ ~last.changed.memory
            /\ ~last.changed.storage
            /\ lastAcquired = last.acquiredBefore)

\* A prompt answered with one blank has failed, and the token held before,
\* whose expiry has passed, is held still.
C7_Witness ==
    /\ last.op = "initializeAuth"
    /\ last.prompted
    /\ last.answer = <<" ">>
    /\ ~last.ok
    /\ accessToken # Null
    /\ Expired(localStorage, last.t0)

\* C8: clearAuth leaves no credential in memory and no persisted entry, and a
\* clearAuth that follows a clearAuth changes nothing; clearAuth has no way
\* to fail, with or without a credential.
C8_ClearAuthIdempotent ==
    [][/\ last'.op = "clearAuth"
          => (accessToken' = Null /\ NothingPersisted(localStorage'))
       /\ (last.op = "clearAuth" /\ last'.op = "clearAuth")
          => (/\ accessToken' = accessToken
              /\ localStorage' = localStorage
              /\ ClearAuthResult(accessToken', localStorage')
                    = ClearAuthResult(accessToken, localStorage))]_vars

\* clearAuth has run twice in a row.
C8_Witness ==
    /\ last.op = "clearAuth"
    /\ last.repeated
    /\ ~last.changed.memory
    /\ ~last.changed.storage

\* C9: after clearAuth, and until it succeeds again, initializeAuth shows the
\* prompt, whether it is called by the application or by a tool call.
C9_PromptAfterClear ==
    [][(last'.op = "initializeAuth" /\ lastAcquired \in {Null, Cleared})
       => last'.prompted]_vars

\* A token was acquired at time 0, cleared at time 0, and initializeAuth,
\* called again at time 0, has shown the prompt.
C9_Witness ==
    /\ last.op = "initializeAuth"
    /\ last.acquiredBefore = Cleared
    /\ last.prompted
    /\ last.t0 = 0

\* C10: when initializeAuth has obtained a token from the prompt at time t,
\* the persisted token is the token in memory and the persisted expiry reads
\* as t + 3600000; a later initializeAuth takes the stored token exactly when
\* the clock is below t + 3600000.
C10_ExpiryOneHour ==
    [][/\ (last'.op = "initializeAuth" /\ last'.prompted /\ last'.ok)
          => (/\ GetItem(localStorage', TOKEN_KEY) = accessToken'
              /\ ParseInt(GetItem(localStorage', EXPIRY_KEY))
                    = {now' + TokenLifetime})
       /\ (last'.op = "initializeAuth" /\ acquiredAt # Never)
          => ((/\ ~last'.prompted
               /\ last'.ok
               /\ accessToken' = GetItem(localStorage, TOKEN_KEY))
              <=> now < acquiredAt + TokenLifetime)]_vars

\* A token obtained from the prompt at time 0 was refused at time 3600000,
\* and the prompt has given another.
C10_Witness ==
    /\ last.op = "initializeAuth"
    /\ last.prompted
    /\ last.ok
    /\ last.acquiredBefore \notin {Null, Cleared}
    /\ last.t0 = TokenLifetime
    /\ acquiredAt >= TokenLifetime

\* The GETs of testConnection that are sent and not settled.
Pings == CopiesIn(Pinging, calls)

\* C11: testConnection never throws.  When its search succeeds it returns
\* true and sends no GET; when its search fails, or initializeAuth fails at
\* the start of it, it sends one GET and returns true exactly when the GET
\* gets a response, so it returns false only when both have failed; no other
\* step sends a GET.
C11_TestConnection ==
    [][/\ last'.op = "testConnection"
          => IF SampleOutcomes["search", last'.http].ok
             THEN /\ last'.ended
                  /\ last'.outcome = Return(JBool(TRUE))
                  /\ Pings' = Pings
             ELSE ~last'.ended /\ Pings' = Pings + 1
       /\ (last'.op = "initializeAuth" /\ last'.by = "testConnection")
          => Pings' = Pings + (IF last'.ok THEN 0 ELSE 1)
       /\ last'.op = "ping"
          => /\ Pings' = Pings - 1
             /\ last'.outcome = Return(JBool(last'.http.settled = "response"))
       /\ (/\ last'.op \notin {"testConnection", "ping"}
           /\ last'.op = "initializeAuth" => last'.by # "testConnection")
          => Pings' = Pings]_vars

\* testConnection has returned false on a client that never had a token: its
\* initializeAuth failed, and so did its GET.
C11_Witness ==
    /\ last.op = "ping"
    /\ last.outcome = Return(JBool(FALSE))
    /\ lastAcquired = Null
    /\ accessToken = Null

\* The value is an array of records (objects).
IsRecords(v) ==
    IsArray(v) /\ \A i \in 1..Len(v.a) : v.a[i].t = "object"

\* A call of fn has settled on a structured JSON-RPC response whose result
\* has an array of records as its member results.
StructuredRecords(fn) ==
    /\ last.op = "settle"
    /\ last.fn = fn
    /\ last.http.settled = "response"
    /\ ~IsString(last.http.data)
    /\ ~HasKey(last.http.data, KError)
    /\ IsRecords(Get(Get(last.http.data, KResult), KResults))

\* C12 as stated: for a structured response whose result.results is an array
\* of N records, callTool returns those N records in their order.
C12_CallToolReturnsRecords ==
    StructuredRecords("callTool")
        => last.outcome = Return(Get(Get(last.http.data, KResult), KResults))

\* C12 as amended: for such a response, whatever the tool, callTool returns
\* the result object, whose member results is the array of the N records in
\* their order, and search returns that array.
C12_SearchReturnsRecords ==
    /\ StructuredRecords("callTool")
       => /\ last.outcome = Return(Get(last.http.data, KResult))
          /\ Get(last.outcome.value, KResults)
                = Get(Get(last.http.data, KResult), KResults)
    /\ StructuredRecords("search")
       => last.outcome = Return(Get(Get(last.http.data, KResult), KResults))

\* search has returned the two records of a structured response that has
\* other members next to results.
C12_Witness ==
    /\ StructuredRecords("search")
    /\ last.outcome = Return(JArr(<<Record1, Record2>>))
    /\ HasKey(Get(last.http.data, KResult), KContent)
    /\ HasKey(Get(last.http.data, KResult), KData)

\* The payloads that are objects with an array as their member results.
ArrayPayloads == {p \in ObjectPayloads : IsArray(Get(p, KResults))}

\* The response that is an event stream with one data line, a JSON-RPC
\* response whose result has one content item with the JSON text of p.
SseTextOf ==
    [p \in ArrayPayloads |->
        HttpOk(JStr(SseBody(JSONStringify(Envelope(KResult, TextContent(p))))))]

\* callTool has settled on the event stream that carries p as a JSON text.
InnerReceived(p) ==
    /\ last.op = "settle"
    /\ last.fn = "callTool"
    /\ last.http = SseTextOf[p]

\* C13 as stated: for an event stream with one data line that wraps the JSON
\* text of an object with a results array, callTool returns that array.
C13_CallToolReturnsInner ==
    \A p \in ArrayPayloads :
        InnerReceived(p) => last.outcome = Return(Get(p, KResults))

\* C13 as amended: for such an event stream callTool returns the object the
\* JSON text encodes, with each member as it was sent; its member results is
\* the array, the same elements in the same order.
C13_CallToolReturnsObject ==
    \A p \in ArrayPayloads :
        InnerReceived(p)
            => /\ last.outcome = Return(p)
               /\ Get(last.outcome.value, KResults) = Get(p, KResults)

\* callTool has returned the object with two records that an event stream
\* carried as a JSON text.
C13_Witness ==
    /\ InnerReceived(ResultsOf(<<Record1, Record2>>))
    /\ last.outcome = Return(ResultsOf(<<Record1, Record2>>))

\* callTool has settled on a response whose body is a text.
TextReceived ==
    /\ last.op = "settle"
    /\ last.fn = "callTool"
    /\ last.http.settled = "response"
    /\ IsString(last.http.data)

\* The remainders of the lines of the text that are prefixed 'data: ', in
\* the order of the lines.
DataLines(text) ==
    LET lines == SplitLines(text)
    IN  SelectSeq([k \in 1..Len(lines) |->
                      IF StartsWithAt(lines[k], 1, DataPrefix)
                      THEN <<SubSeq(lines[k], Len(DataPrefix) + 1, Len(lines[k]))>>
                      ELSE <<>>],
                  LAMBDA l : l # <<>>)

MalformedResponse(outcome) ==
    ~outcome.ok /\ ErrorKind(outcome.error) = "MalformedResponse"

\* C14 as stated: for a text body callTool fails with MalformedResponse
\* exactly when the body has no line prefixed 'data: '.
C14_MalformedIffNoDataLine ==
    TextReceived
        => (MalformedResponse(last.outcome)
                <=> DataLines(last.http.data.s) = <<>>)

\* C14 as amended: for a text body with no line prefixed 'data: ' callTool
\* fails with MalformedResponse; with such lines, the remainder of the first
\* of them decides the outcome, whatever the later lines are: MalformedResponse
\* when it is no JSON text (an empty remainder included), else the outcome of
\* the body that has that line alone.
C14_FirstDataLineDecides ==
    TextReceived
        => LET found == DataLines(last.http.data.s)
           IN  IF found = <<>> THEN MalformedResponse(last.outcome)
               ELSE IF ~JSONParseText(found[1][1]).ok
               THEN MalformedResponse(last.outcome)
               ELSE last.outcome
                      = CallOutcome("callTool", last.tool,
                                    HttpOk(JStr(DataPrefix \o found[1][1])))

\* callTool has returned the record of the first of two data lines.
C14_Witness ==
    /\ TextReceived
    /\ Len(DataLines(last.http.data.s)) = 2
    /\ DataLines(last.http.data.s)[1] # DataLines(last.http.data.s)[2]
    /\ last.outcome = Return(ResultsOf(<<Record1>>))

\* The responses that carry a JSON-RPC error, in either encoding.
ErrorResponses ==
    {HttpOk(StructuredError(e)) : e \in ErrorObjects}
    \cup {HttpOk(SseError(e)) : e \in ErrorObjects}

\* The responses whose text has no data line that is a JSON text.
BrokenResponses == {HttpOk(b) : b \in BrokenTexts}

\* The call has failed with an error of the kind.
FailsWith(outcome, kind) ==
    ~outcome.ok /\ ErrorKind(outcome.error) = kind

\* C15: a call of callTool or search whose acquisition fails ends with an
\* AuthRequired failure; one whose POST fails ends with a TransportError that
\* carries the HTTP status when there is one; one whose response carries a
\* JSON-RPC error ends with a RemoteToolError; one whose response cannot be
\* parsed ends with a MalformedResponse.
C15_FailuresKeepKind ==
    /\ (last.op = "initializeAuth" /\ last.by \in {"callTool", "search"}
        /\ ~last.ok)
       => ErrorKind(last.error) = "AuthRequired"
    /\ (last.op = "settle" /\ last.http.settled = "error")
       => /\ FailsWith(last.outcome, "TransportError")
          /\ last.http.error.hasResponse
             => Mentions(last.outcome.error.message,
                         NumberToString(last.http.error.response.status))
    /\ (last.op = "settle" /\ last.http \in ErrorResponses)
       => FailsWith(last.outcome, "RemoteToolError")
    /\ (last.op = "settle" /\ last.http \in BrokenResponses)
       => FailsWith(last.outcome, "MalformedResponse")

\* The number of calls at the step pc: "send" for the calls whose POST is
\* not sent yet, "wait" for the POSTs that are sent and not settled.
CountAt(pc) ==
    LET at == {c \in BagToSet(calls) : c.pc = pc}
    IN  BagCardinality([c \in at |-> CopiesIn(c, calls)])

\* C16: a call of callTool or search runs initializeAuth at most once, as its
\* first step, and sends one POST of its own, also when the same request of
\* another call is in flight; when its POST settles the call ends, whatever
\* the outcome, and nothing is sent again; no other step sends a POST.
C16_OnePostPerCall ==
    [][/\ last'.op = "call"
          => CountAt("send")' = CountAt("send") + 1
             /\ CountAt("wait")' = CountAt("wait")
       /\ (last'.op = "initializeAuth" /\ last'.by # "initializeAuth")
          => /\ CountAt("send")'
                   = CountAt("send") + (IF last'.ok THEN 1 ELSE 0)
             /\ CountAt("wait")' = CountAt("wait")
       /\ last'.op = "send"
          => /\ CountAt("send")' = CountAt("send") - 1
             /\ CountAt("wait")' = CountAt("wait") + 1
       /\ last'.op = "settle"
          => /\ CountAt("send")' = CountAt("send")
             /\ CountAt("wait")' = CountAt("wait") - 1
             /\ InFlight' = InFlight - 1
       /\ (\/ last'.op \in {"tick", "clearAuth", "close"}
           \/ last'.op = "initializeAuth" /\ last'.by = "initializeAuth")
          => calls' = calls]_vars

\* Two calls of search have each sent their POST, and a failure has ended
\* one of them while the other POST is still in flight.
C16_Witness ==
    /\ last.op = "settle"
    /\ last.fn = "search"
    /\ ~last.outcome.ok
    /\ calls = One(Waiting("search", AppTool))

\* C17: close resets this.accessToken, leaves localStorage as it is and
\* sends nothing; a call of callTool or search that starts with no token in
\* memory, as close leaves it, while the persisted token is within its expiry
\* takes that token from localStorage without a prompt and goes on to its
\* request.
C17_CloseKeepsStorage ==
    [][/\ last'.op = "close"
          => /\ accessToken' = Null
             /\ localStorage' = localStorage
             /\ calls' = calls
       /\ (/\ last'.op = "initializeAuth"
           /\ last'.by \in {"callTool", "search"}
           /\ TruthyString(GetItem(localStorage, TOKEN_KEY))
           /\ LessThan(now, ParseInt(GetItem(localStorage, EXPIRY_KEY))))
          => /\ accessToken = Null
             /\ ~last'.prompted
             /\ last'.ok
             /\ accessToken' = GetItem(localStorage, TOKEN_KEY)
             /\ localStorage' = localStorage
             /\ CountAt("send")' = CountAt("send") + 1]_vars

\* A token was acquired and closed away, and a call of search, one
\* millisecond before the expiry, has taken it from localStorage without a
\* prompt.
C17_Witness ==
    /\ last.op = "initializeAuth"
    /\ last.by = "search"
    /\ ~last.prompted
    /\ last.changed.memory
    /\ ~last.changed.storage
    /\ accessToken = GetItem(localStorage, TOKEN_KEY)
    /\ ParseInt(GetItem(localStorage, EXPIRY_KEY)) = {last.t0 + 1}

\* C18: every POST that a call sends has an Authorization header, and its
\* token is the one the client holds when the request interceptor runs,
\* whatever clearAuth, close and other calls have done since the call checked
\* the credential.
C18_BearerAttached ==
    last.op = "send"
        => (last.header # Null /\ last.header = accessToken)

\* A run of initializeAuth, called by the application or by a tool call, that
\* shows the prompt.
PromptsAgain ==
    /\ InitializeAuth \/ Call
    /\ last'.op = "initializeAuth"
    /\ last'.prompted

\* C19 as stated: when a prompt has just been answered with a token, an
\* acquisition that runs concurrently with the one that prompted can show
\* the prompt once more.
C19_SecondPromptPossible ==
    (last.op = "initializeAuth" /\ last.prompted /\ last.ok)
        => ENABLED PromptsAgain

\* C19 as amended: within the millisecond in which a prompt was answered with
\* a token, and with no clearAuth since, no run of initializeAuth shows the
\* prompt, whether the application or a tool call starts it and whatever other
\* calls, sends, responses and close come between: every such run, and every
\* tool call, takes the token that the prompt has stored.
C19_NoSecondPrompt ==
    [][(/\ acquiredAt # Never
        /\ now = acquiredAt
        /\ last'.op \in {"initializeAuth", "call"})
       => (/\ last'.op = "initializeAuth" => (~last'.prompted /\ last'.ok)
           /\ accessToken' = GetItem(localStorage, TOKEN_KEY)
           /\ localStorage' = localStorage)]_vars

\* Two tool calls are in flight at the time the prompt of the first was
\* answered: the first ran initializeAuth, the second has started without.
C19_Witness ==
    /\ last.op = "call"
    /\ now = acquiredAt
    /\ InFlight = 2
    /\ \E c \in BagToSet(calls) : c.pc = "send" /\ c.acquired
    /\ lastAcquired = accessToken

\* C20: after any sequence of initializeAuth, callTool, search,
\* testConnection, clearAuth and close, localStorage has the token entry
\* exactly when it has the expiry entry.
C20_EntriesTogether ==
    (TOKEN_KEY \in DOMAIN localStorage) <=> (EXPIRY_KEY \in DOMAIN localStorage)

\* Both entries were stored, removed and stored again, the last time by the
\* initializeAuth of testConnection.
C20_Witness ==
    /\ last.op = "initializeAuth"
    /\ last.by = "testConnection"
    /\ last.acquiredBefore = Cleared
    /\ last.changed.storage
    /\ TOKEN_KEY \in DOMAIN localStorage
    /\ EXPIRY_KEY \in DOMAIN localStorage

\* C21: after any sequence of initializeAuth, callTool, search,
\* testConnection, clearAuth and close on one client, with localStorage
\* written by this client only, a token held in memory is the token entry of
\* localStorage: the entry exists and has the same value.
C21_MemoryMatchesStorage ==
    accessToken # Null =>
        (/\ TOKEN_KEY \in DOMAIN localStorage
         /\ localStorage[TOKEN_KEY] = accessToken)

\* The client holds a token again after clearAuth had removed the entries
\* and reset the memory: the prompt was answered a second time.
C21_Witness ==
    /\ last.op = "initializeAuth"
    /\ last.acquiredBefore = Cleared
    /\ last.prompted
    /\ last.ok
    /\ accessToken # Null
    /\ GetItem(localStorage, TOKEN_KEY) = accessToken

\* The started runs of handleSearch whose search has not settled.
Awaiting == {i \in 1..Len(searches) : searches[i].pc = "await"}

\* C22: in SearchComponent, under every interleaving of searches started by
\* the Search button and by the Enter key, loading is true exactly while a
\* search that handleSearch started has not settled: never false while one
\* awaits its response, and false once all have completed.
C22_LoadingWhileAwaiting == component.loading <=> Awaiting # {}

\* C23: in SearchComponent, error is non-null and results is non-empty never
\* at the same time; and when a search settles and none is left awaiting, the
\* component shows the outcome of the search that was started last and
\* nothing of an earlier one: its results with no error, or its error with
\* no results.
C23_LatestSearchShown ==
    /\ ~(component.error # Null /\ component.results.a # <<>>)
    /\ (last.op = "searched" /\ Awaiting = {}) =>
           \E r \in {searches[Len(searches)].outcome} :
               IF r.ok
               THEN component.results = r.value /\ component.error = Null
               ELSE /\ component.error = r.error.message
                    /\ component.results = JArr(<<>>)

====
